---- MODULE Spec2Model ----
(***************************************************************************)
(* Header extraction of axum-required-headers.                             *)
(*                                                                         *)
(* Three extractors are modelled, each a pure function of the request's    *)
(* header map:                                                             *)
(*   - Required<T>  (src/src/extractors.rs, 121-143)                       *)
(*   - Optional<T>  (src/src/extractors.rs, 146-170)                       *)
(*   - the from_request_parts generated by #[derive(Headers)]              *)
(*     (src/axum-required-headers-derive/src/lib.rs, 120-192)              *)
(* A call slot receives a request (its header map), runs one extractor on  *)
(* it and hands the outcome back.                                          *)
(***************************************************************************)
EXTENDS Integers, Sequences, FiniteSets, TLC

VARIABLES calls

vars == <<calls>>

---------------------------------------------------------------------------
(* Bounds of the model.                                                    *)

\* Largest number of fields of a Headers-derived struct.
MaxFields == 2

\* Number of call slots (requests in flight at once).
MaxCalls == 2

\* Largest number of header lines of a request as it arrives.
MaxLines == 2

CallIds == 1..MaxCalls

\* The slots the sequential specification uses: one request at a time.
SeqCalls == {1}

---------------------------------------------------------------------------
(* Header names.                                                           *)

\* Names as the http crate stores them in a HeaderMap: lower case.
HeaderNames == {"x-first", "x-second"}

\* Names as written in #[header("...")]; one of them in mixed case.
DeclaredNames == {"x-first", "X-Second"}

\* HdrName::from_bytes folds a &str key to lower case before the lookup.
Lower(name) ==
    CASE name \in {"X-Second", "X-SECOND"} -> "x-second"
      [] name \in {"X-First", "X-FIRST"} -> "x-first"
      [] OTHER -> name

---------------------------------------------------------------------------
(* Header values: raw bytes.                                               *)

\* "42", "-5", "", "  ", "+7", "4<tab>", and the first bytes of a UTF-8
\* encoded non-ASCII text (E6 97 A5).
RawValues ==
    { <<52, 50>>, <<45, 53>>, <<>>, <<32, 32>>, <<43, 55>>, <<52, 9>>,
      <<230, 151, 165>> }

\* A header map: for every stored name the values the request carried, in
\* the order of arrival (empty when the header is absent).
SingleValued == {<<>>} \cup {<<v>> : v \in RawValues}

HeaderMaps == [HeaderNames -> SingleValued]

None == [tag |-> "None"]

Some(v) == [tag |-> "Some", v |-> v]

\* Mutant: of several values stored under a name the lookup returns the last.
HeaderMapGet_Last(headers, key) ==
    LET k == Lower(key)
    IN  IF k \in DOMAIN headers /\ headers[k] # <<>>
        THEN Some(headers[k][Len(headers[k])])
        ELSE None

\* Mutant: the lookup compares the key as declared, without folding its case.
HeaderMapGet_CaseSensitive(headers, key) ==
    IF key \in DOMAIN headers /\ headers[key] # <<>>
    THEN Some(headers[key][1])
    ELSE None

\* HeaderMap::get(&str): the first value stored under the folded name.
HeaderMapGet(headers, key) ==
    LET k == Lower(key)
    IN  IF k \in DOMAIN headers /\ headers[k] # <<>>
        THEN Some(headers[k][1])
        ELSE None

\* HeaderValue::to_str: every byte must be visible ASCII or a tab; the string
\* is then the same bytes read as text.
IsVisibleAscii(b) == (b >= 32 /\ b < 127) \/ b = 9

\* Mutant: the text is trimmed of the spaces around it.
RECURSIVE Trimmed(_)
Trimmed(s) ==
    IF s = <<>> THEN s
    ELSE IF Head(s) = 32 THEN Trimmed(Tail(s))
    ELSE IF s[Len(s)] = 32 THEN Trimmed(SubSeq(s, 1, Len(s) - 1))
    ELSE s

to_str_Trimmed(bytes) ==
    IF \A i \in 1..Len(bytes) : IsVisibleAscii(bytes[i])
    THEN [ok |-> TRUE, str |-> Trimmed(bytes)]
    ELSE [ok |-> FALSE, str |-> <<>>]

to_str(bytes) ==
    IF \A i \in 1..Len(bytes) : IsVisibleAscii(bytes[i])
    THEN [ok |-> TRUE, str |-> bytes]
    ELSE [ok |-> FALSE, str |-> <<>>]

---------------------------------------------------------------------------
(* Parsers: the FromStr implementations of the field types.                *)

Parsers == {"String", "PositiveInt", "AlwaysFails"}

StringValue(s) == [ty |-> "String", s |-> s, n |-> 0]

IntValue(n) == [ty |-> "PositiveInt", s |-> <<>>, n |-> n]

ParseOk(v) == [ok |-> TRUE, v |-> v]

ParseErr == [ok |-> FALSE, v |-> StringValue(<<>>)]

IsDigit(c) == c >= 48 /\ c <= 57

\* The digit loop of u32::from_str: the first non-digit ends it with an error.
\* (The values of RawValues are too short to overflow a u32.)
RECURSIVE ParseDigits(_, _, _)
ParseDigits(s, i, acc) ==
    IF i > Len(s) THEN ParseOk(IntValue(acc))
    ELSE IF ~IsDigit(s[i]) THEN ParseErr
    ELSE ParseDigits(s, i + 1, acc * 10 + (s[i] - 48))

\* u32::from_str: empty is an error, a lone sign is an error, a leading '+'
\* is skipped, a leading '-' is an invalid digit.
ParseU32(s) ==
    IF Len(s) = 0 THEN ParseErr
    ELSE IF Len(s) = 1 /\ s[1] \in {43, 45} THEN ParseErr
    ELSE IF s[1] = 43 THEN ParseDigits(s, 2, 0)
    ELSE ParseDigits(s, 1, 0)

\* str::parse::<T>() for the three field types.
FromStr(parser, s) ==
    CASE parser = "String" -> ParseOk(StringValue(s))
      [] parser = "PositiveInt" -> ParseU32(s)
      [] OTHER -> ParseErr

---------------------------------------------------------------------------
(* Outcomes.                                                               *)

Ok(v) == [tag |-> "Ok", v |-> v]

Err(kind, name) == [tag |-> "Err", kind |-> kind, name |-> name]

ErrorKinds == {"Missing", "InvalidValue", "Parse"}

\* What one extraction did, in order: each header lookup, decode and parse,
\* with the position of the field it was done for (0 for a wrapper).
Ev(field, op) == [field |-> field, op |-> op]

Result(res, log) == [res |-> res, log |-> log]

---------------------------------------------------------------------------
(* Responses.                                                              *)

\* StatusCode::BAD_REQUEST
BAD_REQUEST == 400

\* StatusCode::OK, the status of a handler that ran.
STATUS_OK == 200

Response(status, error, message) ==
    [status |-> status, error |-> error, message |-> message]

\* Mutant: the message names the header in lower case.
Display_LowerCased(err) ==
    CASE err.kind = "Missing" -> <<"Missing required header: ", Lower(err.name)>>
      [] err.kind = "InvalidValue" ->
            <<"Invalid header value (not valid ASCII): ", Lower(err.name)>>
      [] OTHER -> <<"Failed to parse header value: ", Lower(err.name)>>

\* The #[error("...")] texts of HeaderError: the message as the pieces of
\* the format string and the header name put in for {0} (the quotes the
\* texts put around the name are left out).
Display(err) ==
    CASE err.kind = "Missing" -> <<"Missing required header: ", err.name>>
      [] err.kind = "InvalidValue" ->
            <<"Invalid header value (not valid ASCII): ", err.name>>
      [] OTHER -> <<"Failed to parse header value: ", err.name>>

\* Mutant: a parse failure is answered with 422 Unprocessable Entity.
IntoResponse_ParseUnprocessable(err) ==
    LET error == CASE err.kind = "Missing" -> "missing_header"
                   [] err.kind = "InvalidValue" -> "invalid_header_value"
                   [] OTHER -> "header_parse_error"
    IN  Response(IF err.kind = "Parse" THEN 422 ELSE BAD_REQUEST, error, Display(err))

\* Mutant: the Parse arm of the match carries the text of InvalidValue.
IntoResponse_ParseAsInvalidValue(err) ==
    LET error == CASE err.kind = "Missing" -> "missing_header"
                   [] err.kind = "InvalidValue" -> "invalid_header_value"
                   [] OTHER -> "invalid_header_value"
    IN  Response(BAD_REQUEST, error, Display(err))

\* HeaderError::into_response: the JSON body {"error", "message"} with 400.
IntoResponse(err) ==
    LET error == CASE err.kind = "Missing" -> "missing_header"
                   [] err.kind = "InvalidValue" -> "invalid_header_value"
                   [] OTHER -> "header_parse_error"
    IN  Response(BAD_REQUEST, error, Display(err))

\* The response of a handler that received its extracted arguments.
HandlerResponse == Response(STATUS_OK, "", <<>>)

NoResponse == Response(0, "", <<>>)

---------------------------------------------------------------------------
(* Required<T> and Optional<T>.                                            *)

\* The literal of a #[header("...")] attribute: a declared name, or the
\* empty literal.
AttrNames == DeclaredNames \cup {""}

\* parse_header_attr: the literal's value, an error when it is empty.
parse_header_attr(attr) ==
    IF attr = "" THEN [ok |-> FALSE, name |-> ""] ELSE [ok |-> TRUE, name |-> attr]

\* #[derive(Header)] on a type with the attribute attr and the FromStr
\* parser: both traits with HEADER_NAME the attribute's name, or a compile
\* error.
derive_header_impl(attr, parser) ==
    LET header_name == parse_header_attr(attr)
    IN  IF header_name.ok
        THEN [ok |-> TRUE, ty |-> [name |-> header_name.name, parser |-> parser]]
        ELSE [ok |-> FALSE, ty |-> [name |-> "", parser |-> parser]]

\* The types that derive Header and compile.
DerivedTypes ==
    {derive_header_impl(a, p).ty :
        <<a, p>> \in {x \in AttrNames \X Parsers : derive_header_impl(x[1], x[2]).ok}}

\* The types with a hand-written impl of RequiredHeader and OptionalHeader:
\* HEADER_NAME is whatever string constant the impl gives, here the empty one.
ManualTypes == [name : {""}, parser : Parsers]

\* A type usable in Required<T> and Optional<T>: its HEADER_NAME and its
\* FromStr.
HeaderTypes == DerivedTypes \cup ManualTypes

\* Mutant: the bytes are handed to the parser without the to_str check.
RequiredFromRequestParts_NoDecodeCheck(headers, T) ==
    LET got == HeaderMapGet(headers, T.name)
    IN  IF got.tag = "None"
        THEN Result(Err("Missing", T.name), <<Ev(0, "get")>>)
        ELSE LET parsed == FromStr(T.parser, got.v)
             IN  Result(IF parsed.ok THEN Ok(parsed.v) ELSE Err("Parse", T.name),
                        <<Ev(0, "get"), Ev(0, "parse")>>)

\* Mutant: an absent header is handed to the parser as the empty text.
RequiredFromRequestParts_ParsesAbsent(headers, T) ==
    LET got == HeaderMapGet(headers, T.name)
        value == IF got.tag = "None" THEN [ok |-> TRUE, str |-> <<>>] ELSE to_str(got.v)
    IN  IF ~value.ok
        THEN Result(Err("InvalidValue", T.name), <<Ev(0, "get"), Ev(0, "to_str")>>)
        ELSE LET parsed == FromStr(T.parser, value.str)
             IN  Result(IF parsed.ok THEN Ok(parsed.v) ELSE Err("Parse", T.name),
                        <<Ev(0, "get"), Ev(0, "to_str"), Ev(0, "parse")>>)

\* Mutant: the errors carry the name under which the header map stores the
\* header.
RequiredFromRequestParts_StoredName(headers, T) ==
    LET got == HeaderMapGet(headers, T.name)
    IN  IF got.tag = "None"
        THEN Result(Err("Missing", Lower(T.name)), <<Ev(0, "get")>>)
        ELSE LET value == to_str(got.v)
             IN  IF ~value.ok
                 THEN Result(Err("InvalidValue", Lower(T.name)),
                             <<Ev(0, "get"), Ev(0, "to_str")>>)
                 ELSE LET parsed == FromStr(T.parser, value.str)
                      IN  Result(IF parsed.ok THEN Ok(parsed.v)
                                 ELSE Err("Parse", Lower(T.name)),
                                 <<Ev(0, "get"), Ev(0, "to_str"), Ev(0, "parse")>>)

\* Required<T>::from_request_parts
RequiredFromRequestParts(headers, T) ==
    LET got == HeaderMapGet(headers, T.name)
    IN  IF got.tag = "None"
        THEN Result(Err("Missing", T.name), <<Ev(0, "get")>>)
        ELSE LET value == to_str(got.v)
             IN  IF ~value.ok
                 THEN Result(Err("InvalidValue", T.name),
                             <<Ev(0, "get"), Ev(0, "to_str")>>)
                 ELSE LET parsed == FromStr(T.parser, value.str)
                      IN  Result(IF parsed.ok THEN Ok(parsed.v)
                                 ELSE Err("Parse", T.name),
                                 <<Ev(0, "get"), Ev(0, "to_str"), Ev(0, "parse")>>)

\* Mutant: decode and parse failures are dropped with .ok(), as in the
\* statement generated for an Option<T> field.
OptionalFromRequestParts_Lenient(headers, T) ==
    LET got == HeaderMapGet(headers, T.name)
    IN  IF got.tag = "None"
        THEN Result(Ok(None), <<Ev(0, "get")>>)
        ELSE LET value == to_str(got.v)
             IN  IF ~value.ok
                 THEN Result(Ok(None), <<Ev(0, "get"), Ev(0, "to_str")>>)
                 ELSE LET parsed == FromStr(T.parser, value.str)
                      IN  Result(IF parsed.ok THEN Ok(Some(parsed.v)) ELSE Ok(None),
                                 <<Ev(0, "get"), Ev(0, "to_str"), Ev(0, "parse")>>)

\* Mutant: an absent header is an error for Optional<T> too.
OptionalFromRequestParts_MissingOnAbsent(headers, T) ==
    LET r == RequiredFromRequestParts(headers, T)
    IN  Result(IF r.res.tag = "Ok" THEN Ok(Some(r.res.v)) ELSE r.res, r.log)

\* Optional<T>::from_request_parts
OptionalFromRequestParts(headers, T) ==
    LET got == HeaderMapGet(headers, T.name)
    IN  IF got.tag = "None"
        THEN Result(Ok(None), <<Ev(0, "get")>>)
        ELSE LET value == to_str(got.v)
             IN  IF ~value.ok
                 THEN Result(Err("InvalidValue", T.name),
                             <<Ev(0, "get"), Ev(0, "to_str")>>)
                 ELSE LET parsed == FromStr(T.parser, value.str)
                      IN  Result(IF parsed.ok THEN Ok(Some(parsed.v))
                                 ELSE Err("Parse", T.name),
                                 <<Ev(0, "get"), Ev(0, "to_str"), Ev(0, "parse")>>)

---------------------------------------------------------------------------
(* #[derive(Headers)].                                                     *)

\* One field of a derived struct: the header name of its attribute, whether
\* is_option_type found its type to be Option<..>, and the FromStr of the
\* (inner) type.
Bindings == [name : DeclaredNames, optional : BOOLEAN, parser : Parsers]

RECURSIVE SeqsUpTo(_, _)
SeqsUpTo(S, n) ==
    IF n = 0 THEN {<<>>}
    ELSE LET shorter == SeqsUpTo(S, n - 1)
         IN  shorter \cup {Append(q, x) : q \in {r \in shorter : Len(r) = n - 1}, x \in S}

\* A field as declared: the literal of its attribute, whether its type is
\* Option<..>, and the FromStr of the (inner) type.
FieldDecls == [attr : AttrNames, optional : BOOLEAN, parser : Parsers]

\* The structs #[derive(Headers)] is applied to: named fields, possibly none.
StructDecls == SeqsUpTo(FieldDecls, MaxFields)

\* #[derive(Headers)]: one binding per field in declaration order, or the
\* compile error of the first attribute that does not parse.
derive_headers_impl(decl) ==
    IF \A i \in 1..Len(decl) : parse_header_attr(decl[i].attr).ok
    THEN [ok |-> TRUE,
          schema |-> [i \in 1..Len(decl) |->
                         [name |-> parse_header_attr(decl[i].attr).name,
                          optional |-> decl[i].optional,
                          parser |-> decl[i].parser]]]
    ELSE [ok |-> FALSE, schema |-> <<>>]

\* The derived structs that compile.
Schemas ==
    {derive_headers_impl(d).schema : d \in {x \in StructDecls : derive_headers_impl(x).ok}}

\* Mutant: decode and parse failures of an Option<T> field are raised with
\* `?`, as Optional<T> does.
OptionalFieldParser_Strict(headers, b, i) ==
    LET got == HeaderMapGet(headers, b.name)
    IN  IF got.tag = "None"
        THEN Result(Ok(None), <<Ev(i, "get")>>)
        ELSE LET value == to_str(got.v)
             IN  IF ~value.ok
                 THEN Result(Err("InvalidValue", b.name),
                             <<Ev(i, "get"), Ev(i, "to_str")>>)
                 ELSE LET parsed == FromStr(b.parser, value.str)
                      IN  Result(IF parsed.ok THEN Ok(Some(parsed.v))
                                 ELSE Err("Parse", b.name),
                                 <<Ev(i, "get"), Ev(i, "to_str"), Ev(i, "parse")>>)

\* Mutant: a text the parser rejects is raised as Parse by an Option<T> field
\* (.ok() is missing after parse()).
OptionalFieldParser_ParseRaised(headers, b, i) ==
    LET got == HeaderMapGet(headers, b.name)
    IN  IF got.tag = "None"
        THEN Result(Ok(None), <<Ev(i, "get")>>)
        ELSE LET value == to_str(got.v)
             IN  IF ~value.ok
                 THEN Result(Ok(None), <<Ev(i, "get"), Ev(i, "to_str")>>)
                 ELSE LET parsed == FromStr(b.parser, value.str)
                      IN  Result(IF parsed.ok THEN Ok(Some(parsed.v))
                                 ELSE Err("Parse", b.name),
                                 <<Ev(i, "get"), Ev(i, "to_str"), Ev(i, "parse")>>)

\* Mutant: undecodable bytes are raised as InvalidValue by an Option<T> field
\* (.ok() is missing after to_str()).
OptionalFieldParser_DecodeRaised(headers, b, i) ==
    LET got == HeaderMapGet(headers, b.name)
    IN  IF got.tag = "None"
        THEN Result(Ok(None), <<Ev(i, "get")>>)
        ELSE LET value == to_str(got.v)
             IN  IF ~value.ok
                 THEN Result(Err("InvalidValue", b.name),
                             <<Ev(i, "get"), Ev(i, "to_str")>>)
                 ELSE LET parsed == FromStr(b.parser, value.str)
                      IN  Result(IF parsed.ok THEN Ok(Some(parsed.v)) ELSE Ok(None),
                                 <<Ev(i, "get"), Ev(i, "to_str"), Ev(i, "parse")>>)

\* The statement generated for an Option<T> field:
\* get(name).and_then(|v| v.to_str().ok()).and_then(|s| s.parse().ok())
OptionalFieldParser(headers, b, i) ==
    LET got == HeaderMapGet(headers, b.name)
    IN  IF got.tag = "None"
        THEN Result(Ok(None), <<Ev(i, "get")>>)
        ELSE LET value == to_str(got.v)
             IN  IF ~value.ok
                 THEN Result(Ok(None), <<Ev(i, "get"), Ev(i, "to_str")>>)
                 ELSE LET parsed == FromStr(b.parser, value.str)
                      IN  Result(IF parsed.ok THEN Ok(Some(parsed.v)) ELSE Ok(None),
                                 <<Ev(i, "get"), Ev(i, "to_str"), Ev(i, "parse")>>)

\* Mutant: an absent header is reported with the InvalidValue variant.
RequiredFieldParser_AbsentAsInvalid(headers, b, i) ==
    LET got == HeaderMapGet(headers, b.name)
    IN  IF got.tag = "None"
        THEN Result(Err("InvalidValue", b.name), <<Ev(i, "get")>>)
        ELSE LET value == to_str(got.v)
             IN  IF ~value.ok
                 THEN Result(Err("InvalidValue", b.name),
                             <<Ev(i, "get"), Ev(i, "to_str")>>)
                 ELSE LET parsed == FromStr(b.parser, value.str)
                      IN  Result(IF parsed.ok THEN Ok(parsed.v)
                                 ELSE Err("Parse", b.name),
                                 <<Ev(i, "get"), Ev(i, "to_str"), Ev(i, "parse")>>)

\* Mutant: a rejected text is reported with the InvalidValue variant.
RequiredFieldParser_ParseAsInvalid(headers, b, i) ==
    LET got == HeaderMapGet(headers, b.name)
    IN  IF got.tag = "None"
        THEN Result(Err("Missing", b.name), <<Ev(i, "get")>>)
        ELSE LET value == to_str(got.v)
             IN  IF ~value.ok
                 THEN Result(Err("InvalidValue", b.name),
                             <<Ev(i, "get"), Ev(i, "to_str")>>)
                 ELSE LET parsed == FromStr(b.parser, value.str)
                      IN  Result(IF parsed.ok THEN Ok(parsed.v)
                                 ELSE Err("InvalidValue", b.name),
                                 <<Ev(i, "get"), Ev(i, "to_str"), Ev(i, "parse")>>)

\* The statement generated for any other field:
\* get(name).ok_or_else(Missing)?.to_str().map_err(InvalidValue)?.parse().map_err(Parse)?
RequiredFieldParser(headers, b, i) ==
    LET got == HeaderMapGet(headers, b.name)
    IN  IF got.tag = "None"
        THEN Result(Err("Missing", b.name), <<Ev(i, "get")>>)
        ELSE LET value == to_str(got.v)
             IN  IF ~value.ok
                 THEN Result(Err("InvalidValue", b.name),
                             <<Ev(i, "get"), Ev(i, "to_str")>>)
                 ELSE LET parsed == FromStr(b.parser, value.str)
                      IN  Result(IF parsed.ok THEN Ok(parsed.v)
                                 ELSE Err("Parse", b.name),
                                 <<Ev(i, "get"), Ev(i, "to_str"), Ev(i, "parse")>>)

\* Mutant: only the first Option<T> field of a struct gets the lenient
\* statement, a later one raises decode and parse failures.
FieldParser_StrictAfterFirst(headers, b, i) ==
    IF b.optional /\ i = 1 THEN OptionalFieldParser(headers, b, i)
    ELSE IF b.optional THEN OptionalFieldParser_Strict(headers, b, i)
    ELSE RequiredFieldParser(headers, b, i)

\* Mutant: is_option_type recognises no type, every field gets the required
\* statement.
FieldParser_NeverOptional(headers, b, i) ==
    RequiredFieldParser(headers, b, i)

\* derive_headers_impl picks the statement by the field's type.
FieldParser(headers, b, i) ==
    IF b.optional
    THEN OptionalFieldParser(headers, b, i)
    ELSE RequiredFieldParser(headers, b, i)

\* Mutant: the struct is filled in the reverse of the declaration order.
Construct_Reversed(fields) ==
    [i \in 1..Len(fields) |-> fields[Len(fields) + 1 - i]]

\* Ok(Self { field, ... }): every field takes the value bound under its name.
Construct(fields) == [i \in 1..Len(fields) |-> fields[i]]

\* Mutant: an error does not leave the function; the remaining fields are
\* evaluated and the last error met is returned.
RECURSIVE RunKeepLastError(_, _, _, _, _, _)
RunKeepLastError(headers, schema, i, fields, log, err) ==
    IF i > Len(schema)
    THEN Result(IF err.tag = "Err" THEN err ELSE Ok(Construct(fields)), log)
    ELSE LET r == FieldParser(headers, schema[i], i)
         IN  IF r.res.tag = "Err"
             THEN RunKeepLastError(headers, schema, i + 1, fields, log \o r.log, r.res)
             ELSE RunKeepLastError(headers, schema, i + 1,
                                   Append(fields, r.res.v), log \o r.log, err)

RunFieldParsers_LastError(headers, schema, i, fields, log) ==
    RunKeepLastError(headers, schema, i, fields, log, [tag |-> "NoError"])

\* Mutant: a field whose statement fails is left out and the struct is built
\* from the fields that resolved.
RECURSIVE RunFieldParsers_SkipFailed(_, _, _, _, _)
RunFieldParsers_SkipFailed(headers, schema, i, fields, log) ==
    IF i > Len(schema)
    THEN Result(Ok(Construct(fields)), log)
    ELSE LET r == FieldParser(headers, schema[i], i)
         IN  IF r.res.tag = "Err"
             THEN RunFieldParsers_SkipFailed(headers, schema, i + 1, fields, log \o r.log)
             ELSE RunFieldParsers_SkipFailed(headers, schema, i + 1,
                                             Append(fields, r.res.v), log \o r.log)

\* Mutant: a field whose header name an earlier field already read takes
\* that field's value instead of resolving the header again.
RECURSIVE RunFieldParsers_ReuseByName(_, _, _, _, _)
RunFieldParsers_ReuseByName(headers, schema, i, fields, log) ==
    IF i > Len(schema)
    THEN Result(Ok(Construct(fields)), log)
    ELSE LET earlier == {j \in 1..(i - 1) : Lower(schema[j].name) = Lower(schema[i].name)}
             r == FieldParser(headers, schema[i], i)
         IN  IF earlier # {}
             THEN RunFieldParsers_ReuseByName(headers, schema, i + 1,
                      Append(fields, fields[CHOOSE j \in earlier : TRUE]),
                      log \o r.log)
             ELSE IF r.res.tag = "Err"
             THEN Result(r.res, log \o r.log)
             ELSE RunFieldParsers_ReuseByName(headers, schema, i + 1,
                                              Append(fields, r.res.v), log \o r.log)

\* Mutant: a struct without fields is rejected as if a header were missing.
RECURSIVE RunFieldParsers_NeedsOneField(_, _, _, _, _)
RunFieldParsers_NeedsOneField(headers, schema, i, fields, log) ==
    IF Len(schema) = 0
    THEN Result(Err("Missing", ""), log)
    ELSE IF i > Len(schema)
    THEN Result(Ok(Construct(fields)), log)
    ELSE LET r == FieldParser(headers, schema[i], i)
         IN  IF r.res.tag = "Err"
             THEN Result(r.res, log \o r.log)
             ELSE RunFieldParsers_NeedsOneField(headers, schema, i + 1,
                                                Append(fields, r.res.v), log \o r.log)

\* The body of the generated from_request_parts: the field statements in
\* declaration order, a `?` leaving at the first error, then the struct.
RECURSIVE RunFieldParsers(_, _, _, _, _)
RunFieldParsers(headers, schema, i, fields, log) ==
    IF i > Len(schema)
    THEN Result(Ok(Construct(fields)), log)
    ELSE LET r == FieldParser(headers, schema[i], i)
         IN  IF r.res.tag = "Err"
             THEN Result(r.res, log \o r.log)
             ELSE RunFieldParsers(headers, schema, i + 1,
                                  Append(fields, r.res.v), log \o r.log)

HeadersFromRequestParts(headers, schema) ==
    RunFieldParsers(headers, schema, 1, <<>>, <<>>)

---------------------------------------------------------------------------
(* Requests as they arrive.                                                *)

Line(name, value) == [name |-> name, value |-> value]

\* The header names a client may send, in the case it chose.
WireNames == {"x-first", "X-FIRST", "X-First", "x-second"}

\* "42", "-5" and non-ASCII bytes.
WireValues == { <<52, 50>>, <<45, 53>>, <<230, 151, 165>> }

\* Request::builder().header(name, value)...: the header lines in order.
WireRequests == SeqsUpTo([name : WireNames, value : WireValues], MaxLines)

\* Mutant: the header is stored under the name as it was sent.
RECURSIVE IntoHeaderMap_KeepCase(_)
IntoHeaderMap_KeepCase(lines) ==
    IF lines = <<>> THEN [n \in HeaderNames |-> <<>>]
    ELSE LET front == IntoHeaderMap_KeepCase(SubSeq(lines, 1, Len(lines) - 1))
             last == lines[Len(lines)]
         IN  IF last.name \in DOMAIN front
             THEN [front EXCEPT ![last.name] = Append(@, last.value)]
             ELSE (last.name :> <<last.value>>) @@ front

\* The HeaderMap of the request parts: every line's name becomes a
\* HeaderName, which is lower case, and its value is appended to the values
\* stored under that name.
RECURSIVE IntoHeaderMap(_)
IntoHeaderMap(lines) ==
    IF lines = <<>> THEN [n \in HeaderNames |-> <<>>]
    ELSE LET front == IntoHeaderMap(SubSeq(lines, 1, Len(lines) - 1))
             last == lines[Len(lines)]
         IN  [front EXCEPT ![Lower(last.name)] = Append(@, last.value)]

\* The lines of a request that sends every header of a map once, in lower
\* case.
LinesOf(M) ==
    (IF M["x-first"] = <<>> THEN <<>> ELSE <<Line("x-first", M["x-first"][1])>>)
        \o (IF M["x-second"] = <<>> THEN <<>> ELSE <<Line("x-second", M["x-second"][1])>>)

---------------------------------------------------------------------------
(* Call slots.                                                             *)

NoType == [name |-> "", parser |-> ""]

NoHeaders == [n \in HeaderNames |-> <<>>]

NoOutcome == [tag |-> "NoOutcome"]

Idle ==
    [pc |-> "idle", kind |-> "none", headers |-> NoHeaders, schema |-> <<>>,
     ty |-> NoType, outcome |-> NoOutcome, log |-> <<>>, response |-> NoResponse,
     lines |-> <<>>, fields |-> <<>>]

Init == calls = [c \in CallIds |-> Idle]

\* The framework builds the parts of an arriving request and hands them to
\* a slot.
Received(c, lines) ==
    calls' = [calls EXCEPT ![c] = [Idle EXCEPT !.pc = "request", !.lines = lines,
                                               !.headers = IntoHeaderMap(lines)]]

\* A request with lower-case names, each header sent at most once.
Request(c) ==
    /\ calls[c].pc = "idle"
    /\ \E M \in HeaderMaps : Received(c, LinesOf(M))

\* A request with names in the client's case, a header possibly sent twice.
Receive(c) ==
    /\ calls[c].pc = "idle"
    /\ \E L \in WireRequests : Received(c, L)

\* Mutant: the extractor takes the headers out of the parts.
Extracted_TakesHeaders(c, kind, schema, ty, r) ==
    calls' = [calls EXCEPT ![c] =
                 [calls[c] EXCEPT !.pc = "done", !.kind = kind, !.schema = schema,
                                  !.ty = ty, !.outcome = r.res, !.log = r.log,
                                  !.headers = NoHeaders]]

\* The extractor run on the parts leaves them as they are: it only reads
\* parts.headers.
Extracted(c, kind, schema, ty, r) ==
    calls' = [calls EXCEPT ![c] =
                 [calls[c] EXCEPT !.pc = "done", !.kind = kind, !.schema = schema,
                                  !.ty = ty, !.outcome = r.res, !.log = r.log]]

ExtractRequired(c) ==
    /\ calls[c].pc = "request"
    /\ \E T \in HeaderTypes :
          Extracted(c, "Required", <<>>, T, RequiredFromRequestParts(calls[c].headers, T))

ExtractOptional(c) ==
    /\ calls[c].pc = "request"
    /\ \E T \in HeaderTypes :
          Extracted(c, "Optional", <<>>, T, OptionalFromRequestParts(calls[c].headers, T))

ExtractHeadersOf(c, structs) ==
    /\ calls[c].pc = "request"
    /\ \E S \in structs :
          Extracted(c, "Headers", S, NoType, HeadersFromRequestParts(calls[c].headers, S))

ExtractHeaders(c) == ExtractHeadersOf(c, Schemas)

\* The derived structs of at most one field.
ExtractOneField(c) == ExtractHeadersOf(c, {S \in Schemas : Len(S) <= 1})

\* The framework turns a rejection into its response, or runs the handler
\* with the extracted value.
Respond(c) ==
    /\ calls[c].pc = "done"
    /\ calls' = [calls EXCEPT ![c] =
                    [calls[c] EXCEPT !.pc = "responded",
                                     !.response = IF calls[c].outcome.tag = "Err"
                                                  THEN IntoResponse(calls[c].outcome)
                                                  ELSE HandlerResponse]]

\* The response is sent; the slot is free again.
Release(c) ==
    /\ calls[c].pc = "responded"
    /\ calls' = [calls EXCEPT ![c] = Idle]

Next ==
    \E c \in SeqCalls :
        \/ Request(c)
        \/ ExtractRequired(c)
        \/ ExtractOptional(c)
        \/ ExtractHeaders(c)
        \/ Respond(c)
        \/ Release(c)

Spec == Init /\ [][Next]_vars

\* Requests as they arrive, against the wrappers and the derived structs of
\* at most one field.
NextWire ==
    \E c \in SeqCalls :
        \/ Receive(c)
        \/ ExtractRequired(c)
        \/ ExtractOptional(c)
        \/ ExtractOneField(c)
        \/ Respond(c)
        \/ Release(c)

SpecWire == Init /\ [][NextWire]_vars

---------------------------------------------------------------------------
(* One route served by several tasks at once: every task runs the same     *)
(* handler, whose extractor is fixed when the program is built, on its own *)
(* request; the statements of from_request_parts of different tasks        *)
(* interleave.                                                             *)

ConcTypes ==
    { [name |-> "x-first", parser |-> "PositiveInt"],
      [name |-> "X-Second", parser |-> "String"] }

ConcBindings ==
    { [name |-> "x-first", optional |-> FALSE, parser |-> "PositiveInt"],
      [name |-> "x-first", optional |-> TRUE, parser |-> "PositiveInt"],
      [name |-> "X-Second", optional |-> FALSE, parser |-> "String"] }

ConcSchemas == {S \in Schemas : \A i \in 1..Len(S) : S[i] \in ConcBindings}

\* Nothing; "42"; "-5" and "42"; "42" and "42".
ConcMaps ==
    { M \in HeaderMaps :
        <<M["x-first"], M["x-second"]>> \in
            { << <<>>, <<>> >>,
              << << <<52, 50>> >>, <<>> >>,
              << << <<45, 53>> >>, << <<52, 50>> >> >>,
              << << <<52, 50>> >>, << <<52, 50>> >> >> } }

\* The handler's extractor: Required<T>, Optional<T> or a derived struct.
Handler(kind, ty, schema) == [Idle EXCEPT !.kind = kind, !.ty = ty, !.schema = schema]

Handlers ==
    {Handler(k, T, <<>>) : k \in {"Required", "Optional"}, T \in ConcTypes}
        \cup {Handler("Headers", NoType, S) : S \in ConcSchemas}

InitConc == \E h \in Handlers : calls = [c \in CallIds |-> h]

\* A task takes a request.
Accept(c) ==
    /\ calls[c].pc = "idle"
    /\ \E M \in ConcMaps :
          calls' = [calls EXCEPT ![c] =
                       [@ EXCEPT !.pc = "request", !.lines = LinesOf(M),
                                 !.headers = IntoHeaderMap(LinesOf(M))]]

\* Mutant: the parts are kept in one place for all tasks: a task reads the
\* headers of the first task that holds a request.
PartsOf_Shared(c) ==
    calls[CHOOSE d \in CallIds : calls[d].pc # "idle"
                                    /\ \A e \in CallIds : calls[e].pc # "idle" => d <= e].headers

\* parts.headers: the header map of the task's own request.
PartsOf(c) == calls[c].headers

\* The statement of field i in the generated from_request_parts.
ResolveField(c, i) == FieldParser(PartsOf(c), calls[c].schema[i], i)

Running(c) == calls[c].pc \in {"request", "running"}

\* Required<T> or Optional<T>: the whole of from_request_parts.
CallWrapper(c) ==
    /\ calls[c].pc = "request"
    /\ calls[c].kind \in {"Required", "Optional"}
    /\ Extracted(c, calls[c].kind, <<>>, calls[c].ty,
                 IF calls[c].kind = "Required"
                 THEN RequiredFromRequestParts(PartsOf(c), calls[c].ty)
                 ELSE OptionalFromRequestParts(PartsOf(c), calls[c].ty))

\* Mutant: an error is noted and the next field statements still run.
FieldStep_KeepsGoing(c) ==
    /\ Running(c)
    /\ calls[c].kind = "Headers"
    /\ Len(calls[c].fields) < Len(calls[c].schema)
    /\ LET r == ResolveField(c, Len(calls[c].fields) + 1)
       IN  calls' = [calls EXCEPT ![c] =
                        IF r.res.tag = "Err"
                        THEN [@ EXCEPT !.pc = "running", !.outcome = r.res,
                                       !.fields = Append(@, None), !.log = @ \o r.log]
                        ELSE [@ EXCEPT !.pc = "running", !.fields = Append(@, r.res.v),
                                       !.log = @ \o r.log]]

\* Mutant: a field statement that failed is tried once more before its
\* error is returned.
FieldStep_RetriesOnce(c) ==
    /\ Running(c)
    /\ calls[c].kind = "Headers"
    /\ Len(calls[c].fields) < Len(calls[c].schema)
    /\ LET i == Len(calls[c].fields) + 1
           r == ResolveField(c, i)
           tried == \E k \in 1..Len(calls[c].log) : calls[c].log[k].field = i
       IN  calls' = [calls EXCEPT ![c] =
                        IF r.res.tag = "Err" /\ ~tried
                        THEN [@ EXCEPT !.pc = "running", !.log = @ \o r.log]
                        ELSE IF r.res.tag = "Err"
                        THEN [@ EXCEPT !.pc = "done", !.outcome = r.res, !.log = @ \o r.log]
                        ELSE [@ EXCEPT !.pc = "running", !.fields = Append(@, r.res.v),
                                       !.log = @ \o r.log]]

\* A derived struct: the next field statement; its `?` returns the error.
FieldStep(c) ==
    /\ Running(c)
    /\ calls[c].kind = "Headers"
    /\ Len(calls[c].fields) < Len(calls[c].schema)
    /\ LET r == ResolveField(c, Len(calls[c].fields) + 1)
       IN  calls' = [calls EXCEPT ![c] =
                        IF r.res.tag = "Err"
                        THEN [@ EXCEPT !.pc = "done", !.outcome = r.res, !.log = @ \o r.log]
                        ELSE [@ EXCEPT !.pc = "running", !.fields = Append(@, r.res.v),
                                       !.log = @ \o r.log]]

\* A derived struct: after the last field statement, Ok(Self { .. }).
Return(c) ==
    /\ Running(c)
    /\ calls[c].kind = "Headers"
    /\ Len(calls[c].fields) = Len(calls[c].schema)
    /\ calls' = [calls EXCEPT ![c] =
                    [@ EXCEPT !.pc = "done", !.outcome = Ok(Construct(calls[c].fields))]]

\* Mutant: the task keeps the fields of its last call for the next one.
Finish_KeepsFields(c) ==
    /\ calls[c].pc = "responded"
    /\ calls' = [calls EXCEPT ![c] =
                    [Handler(calls[c].kind, calls[c].ty, calls[c].schema)
                        EXCEPT !.fields = calls[c].fields]]

\* The response is sent; the task is free for the next request.
Finish(c) ==
    /\ calls[c].pc = "responded"
    /\ calls' = [calls EXCEPT ![c] =
                    Handler(calls[c].kind, calls[c].ty, calls[c].schema)]

StepOf(c) ==
    \/ Accept(c)
    \/ CallWrapper(c)
    \/ FieldStep(c)
    \/ Return(c)
    \/ Respond(c)
    \/ Finish(c)

NextConc == \E c \in CallIds : StepOf(c)

SpecConc == InitConc /\ [][NextConc]_vars

\* One task alone. A started from_request_parts is straight-line code
\* without an await: its next statement is always taken.
NextAlone == \E c \in SeqCalls : StepOf(c)

Proceed == \E c \in SeqCalls : CallWrapper(c) \/ FieldStep(c) \/ Return(c)

SpecAlone == InitConc /\ [][NextAlone]_vars /\ WF_vars(Proceed)

---------------------------------------------------------------------------
(* What the properties speak of, stated on the header map itself.          *)

Done(c) == calls[c].pc = "done"

\* The header a binding names is in the map, whatever the case of the name.
Present(M, name) == \E k \in DOMAIN M : k = Lower(name) /\ M[k] # <<>>

\* The raw bytes a binding is resolved from.
Raw(M, name) == M[Lower(name)][1]

\* Header bytes that read as text: printable ASCII, or a tab.
Decodable(bytes) == \A i \in 1..Len(bytes) : bytes[i] \in (32..126) \cup {9}

Undecodable(M, name) == Present(M, name) /\ ~Decodable(Raw(M, name))

Unparseable(M, b) ==
    /\ Present(M, b.name)
    /\ Decodable(Raw(M, b.name))
    /\ ~FromStr(b.parser, Raw(M, b.name)).ok

\* Present, decodable and accepted by the parser.
Good(M, b) ==
    /\ Present(M, b.name)
    /\ Decodable(Raw(M, b.name))
    /\ FromStr(b.parser, Raw(M, b.name)).ok

\* The binding's parser applied to the decoded text.
Parsed(M, b) == FromStr(b.parser, Raw(M, b.name)).v

\* Field i of a derived struct was evaluated: its header was looked up.
Evaluated(c, i) == \E k \in 1..Len(calls[c].log) : calls[c].log[k] = Ev(i, "get")

\* The parser of field i (0: of the wrapped type) ran.
ParserRan(c, i) == \E k \in 1..Len(calls[c].log) : calls[c].log[k] = Ev(i, "parse")

RequiredCall(c) == Done(c) /\ calls[c].kind = "Required"

OptionalCall(c) == Done(c) /\ calls[c].kind = "Optional"

HeadersCall(c) == Done(c) /\ calls[c].kind = "Headers"

\* The required fields of a derived struct that were evaluated.
RequiredFields(c) ==
    {i \in 1..Len(calls[c].schema) : ~calls[c].schema[i].optional /\ Evaluated(c, i)}

OptionalFields(c) ==
    {i \in 1..Len(calls[c].schema) : calls[c].schema[i].optional}

---------------------------------------------------------------------------
(* Properties.                                                             *)

\* C1: a required binding (Required<T>, or an evaluated non-Option field of
\* a derived struct) whose header is absent from the map fails the
\* extraction with Missing(name).
C1_RequiredAbsentIsMissing ==
    \A c \in CallIds :
        /\ (RequiredCall(c) /\ ~Present(calls[c].headers, calls[c].ty.name))
              => calls[c].outcome = Err("Missing", calls[c].ty.name)
        /\ HeadersCall(c) =>
              \A i \in RequiredFields(c) :
                  ~Present(calls[c].headers, calls[c].schema[i].name)
                      => calls[c].outcome = Err("Missing", calls[c].schema[i].name)

\* C1 witness: the second, required field of a derived struct is reached and
\* its header is absent; the call ended with Missing of that name.
C1_Witness ==
    \E c \in CallIds :
        /\ HeadersCall(c)
        /\ 2 \in RequiredFields(c)
        /\ ~Present(calls[c].headers, calls[c].schema[2].name)
        /\ calls[c].outcome = Err("Missing", calls[c].schema[2].name)

\* C2: a required binding whose header is present with bytes that are not
\* printable ASCII fails with InvalidValue(name), and its parser is not run.
C2_RequiredUndecodableIsInvalidValue ==
    \A c \in CallIds :
        /\ (RequiredCall(c) /\ Undecodable(calls[c].headers, calls[c].ty.name))
              => /\ calls[c].outcome = Err("InvalidValue", calls[c].ty.name)
                 /\ ~ParserRan(c, 0)
        /\ HeadersCall(c) =>
              \A i \in RequiredFields(c) :
                  Undecodable(calls[c].headers, calls[c].schema[i].name)
                      => /\ calls[c].outcome = Err("InvalidValue", calls[c].schema[i].name)
                         /\ ~ParserRan(c, i)

\* C2 witness: Required<T> met a present header with non-ASCII bytes and
\* ended with InvalidValue.
C2_Witness ==
    \E c \in CallIds :
        /\ RequiredCall(c)
        /\ Undecodable(calls[c].headers, calls[c].ty.name)
        /\ calls[c].outcome.tag = "Err"
        /\ calls[c].outcome.kind = "InvalidValue"

\* C3: a required binding whose header is present and decodable but rejected
\* by the binding's parser fails with Parse(name).
C3_RequiredUnparseableIsParse ==
    \A c \in CallIds :
        /\ (RequiredCall(c) /\ Unparseable(calls[c].headers, calls[c].ty))
              => calls[c].outcome = Err("Parse", calls[c].ty.name)
        /\ HeadersCall(c) =>
              \A i \in RequiredFields(c) :
                  Unparseable(calls[c].headers, calls[c].schema[i])
                      => calls[c].outcome = Err("Parse", calls[c].schema[i].name)

\* C3 witness: a required PositiveInt field met "-5" and the call ended with
\* Parse of the field's header name.
C3_Witness ==
    \E c \in CallIds :
        /\ HeadersCall(c)
        /\ 1 \in RequiredFields(c)
        /\ calls[c].schema[1].parser = "PositiveInt"
        /\ Present(calls[c].headers, calls[c].schema[1].name)
        /\ Raw(calls[c].headers, calls[c].schema[1].name) = <<45, 53>>
        /\ calls[c].outcome = Err("Parse", calls[c].schema[1].name)

\* C4: a required binding whose header is present, decodable and accepted by
\* the parser resolves to the parser's value of the decoded text: Required<T>
\* succeeds with it; in a derived struct the extraction goes on past the
\* field (to the next field, or to success after the last one) and a built
\* struct holds that value in the field.
C4_RequiredGoodIsParsedValue ==
    \A c \in CallIds :
        /\ (RequiredCall(c) /\ Good(calls[c].headers, calls[c].ty))
              => calls[c].outcome = Ok(Parsed(calls[c].headers, calls[c].ty))
        /\ HeadersCall(c) =>
              \A i \in RequiredFields(c) :
                  Good(calls[c].headers, calls[c].schema[i])
                      => /\ IF i < Len(calls[c].schema)
                            THEN Evaluated(c, i + 1)
                            ELSE calls[c].outcome.tag = "Ok"
                         /\ calls[c].outcome.tag = "Ok"
                               => calls[c].outcome.v[i]
                                     = Parsed(calls[c].headers, calls[c].schema[i])

\* C4 witness: Required<T> with the String parser, declared as "X-Second",
\* on a request carrying "42" under x-second: success with the text "42".
C4_Witness ==
    \E c \in CallIds :
        /\ RequiredCall(c)
        /\ calls[c].ty = [name |-> "X-Second", parser |-> "String"]
        /\ calls[c].headers["x-second"] = << <<52, 50>> >>
        /\ calls[c].outcome = Ok(StringValue(<<52, 50>>))

LenientValue(M, b) == IF Good(M, b) THEN Some(Parsed(M, b)) ELSE None

\* C6: an Option<T> field of a derived struct is lenient: whatever the state
\* of the optional headers, the extraction succeeds when every required
\* field is good, and in a built struct an Option<T> field is Some(parsed
\* value) when its header is present, decodable and parseable, None otherwise.
C6_OptionFieldLenient ==
    \A c \in CallIds :
        HeadersCall(c) =>
            LET M == calls[c].headers
                S == calls[c].schema
            IN  /\ (\A j \in 1..Len(S) : ~S[j].optional => Good(M, S[j]))
                      => calls[c].outcome.tag = "Ok"
                /\ calls[c].outcome.tag = "Ok"
                      => \A i \in OptionalFields(c) :
                            calls[c].outcome.v[i] = LenientValue(M, S[i])

\* C6 witness: a struct was built although the header of its Option<T>
\* field 1 is present and not parseable (or not decodable); the field is None.
C6_Witness ==
    \E c \in CallIds :
        /\ HeadersCall(c)
        /\ 1 \in OptionalFields(c)
        /\ Present(calls[c].headers, calls[c].schema[1].name)
        /\ ~Good(calls[c].headers, calls[c].schema[1])
        /\ calls[c].outcome.tag = "Ok"
        /\ calls[c].outcome.v[1] = None

\* A binding that fails when resolved on its own: required and not good.
FailsAlone(M, b) == ~b.optional /\ ~Good(M, b)

\* The error of a failing required binding, by the state of its header.
ErrorOf(M, b) ==
    IF ~Present(M, b.name) THEN Err("Missing", b.name)
    ELSE IF ~Decodable(Raw(M, b.name)) THEN Err("InvalidValue", b.name)
    ELSE Err("Parse", b.name)

\* The stored names the bindings 1..i of a schema read.
NamesUpTo(S, i) == {Lower(S[j].name) : j \in 1..i}

\* C7: a failing extraction of a derived struct returns the error of the
\* first binding, in declaration order, that fails on its own; the same
\* error is returned for every map that agrees on the headers of the
\* bindings up to that one, whatever the later bindings' headers are.
C7_FirstFailingBindingWins ==
    \A c \in CallIds :
        (HeadersCall(c) /\ calls[c].outcome.tag = "Err") =>
            LET M == calls[c].headers
                S == calls[c].schema
            IN  \E i \in 1..Len(S) :
                    /\ FailsAlone(M, S[i])
                    /\ \A j \in 1..(i - 1) : ~FailsAlone(M, S[j])
                    /\ calls[c].outcome = ErrorOf(M, S[i])
                    /\ \A M2 \in HeaderMaps :
                          (\A k \in NamesUpTo(S, i) : M2[k] = M[k])
                              => HeadersFromRequestParts(M2, S).res = calls[c].outcome

\* C7 witness: [x-first required, X-Second required], only x-second present:
\* Missing("x-first").
C7_Witness ==
    \E c \in CallIds :
        /\ HeadersCall(c)
        /\ Len(calls[c].schema) = 2
        /\ calls[c].schema[1].name = "x-first" /\ ~calls[c].schema[1].optional
        /\ calls[c].schema[2].name = "X-Second" /\ ~calls[c].schema[2].optional
        /\ calls[c].headers["x-first"] = <<>>
        /\ Good(calls[c].headers, calls[c].schema[2])
        /\ calls[c].outcome = Err("Missing", "x-first")

Orders(n) ==
    {p \in [1..n -> 1..n] : \A a, b \in 1..n : p[a] = p[b] => a = b}

Permuted(S, p) == [k \in 1..Len(S) |-> S[p[k]]]

\* C8: when every required binding is good the extraction succeeds, every
\* field equals what its binding resolves to as the only field of a struct,
\* and extracting with the bindings in any other order gives every field the
\* same value.
C8_FieldsAreIndividualValues ==
    \A c \in CallIds :
        (HeadersCall(c)
           /\ \A j \in 1..Len(calls[c].schema) :
                 ~FailsAlone(calls[c].headers, calls[c].schema[j])) =>
            LET M == calls[c].headers
                S == calls[c].schema
            IN  /\ calls[c].outcome.tag = "Ok"
                /\ DOMAIN calls[c].outcome.v = 1..Len(S)
                /\ \A i \in 1..Len(S) :
                      LET alone == HeadersFromRequestParts(M, <<S[i]>>).res
                      IN  alone.tag = "Ok" /\ calls[c].outcome.v[i] = alone.v[1]
                /\ \A p \in Orders(Len(S)) :
                      LET r == HeadersFromRequestParts(M, Permuted(S, p)).res
                      IN  /\ r.tag = "Ok"
                          /\ \A k \in 1..Len(S) : r.v[k] = calls[c].outcome.v[p[k]]

\* C8 witness: a struct of two fields bound to different headers was built
\* and its two fields hold different values.
C8_Witness ==
    \E c \in CallIds :
        /\ HeadersCall(c)
        /\ Len(calls[c].schema) = 2
        /\ Lower(calls[c].schema[1].name) # Lower(calls[c].schema[2].name)
        /\ ~calls[c].schema[1].optional
        /\ calls[c].outcome.tag = "Ok"
        /\ calls[c].outcome.v[1] # calls[c].outcome.v[2]

\* A value of the type a parser produces.
ValueOf(parser, x) == "ty" \in DOMAIN x /\ x.ty = parser

\* A populated field: a value of the field's type, or for an Option<T> field
\* None or Some of such a value.
Populated(b, x) ==
    IF b.optional
    THEN x = None \/ (x.tag = "Some" /\ ValueOf(b.parser, x.v))
    ELSE ValueOf(b.parser, x)

\* exactly one HeaderError, and nothing else with it
OneError(o, names) ==
    /\ DOMAIN o = {"tag", "kind", "name"}
    /\ o.kind \in ErrorKinds
    /\ o.name \in names

\* C9: every extraction ends either with a value and no error (for a derived
\* struct: one populated field per binding of the schema) or with exactly
\* one HeaderError and no value.
C9_AllOrNothing ==
    \A c \in CallIds :
        Done(c) =>
            LET o == calls[c].outcome
                S == calls[c].schema
            IN  /\ o.tag \in {"Ok", "Err"}
                /\ o.tag = "Err" =>
                      OneError(o, IF calls[c].kind = "Headers"
                                  THEN {S[i].name : i \in 1..Len(S)}
                                  ELSE {calls[c].ty.name})
                /\ o.tag = "Ok" =>
                      /\ DOMAIN o = {"tag", "v"}
                      /\ calls[c].kind = "Headers" =>
                            /\ DOMAIN o.v = 1..Len(S)
                            /\ \A i \in 1..Len(S) : Populated(S[i], o.v[i])
                      /\ calls[c].kind = "Required" =>
                            ValueOf(calls[c].ty.parser, o.v)
                      /\ calls[c].kind = "Optional" =>
                            (o.v = None
                               \/ (o.v.tag = "Some" /\ ValueOf(calls[c].ty.parser, o.v.v)))

\* C9 witness: the first field of a two-field struct resolved, the second
\* failed: the call ended with the error alone.
C9_Witness ==
    \E c \in CallIds :
        /\ HeadersCall(c)
        /\ Len(calls[c].schema) = 2
        /\ Evaluated(c, 2)
        /\ Good(calls[c].headers, calls[c].schema[1])
        /\ calls[c].outcome.tag = "Err"
        /\ DOMAIN calls[c].outcome = {"tag", "kind", "name"}

\* The Option<T> field bound to the header name and parser of T, as the only
\* field of a derived struct.
AsOptionField(T) == <<[name |-> T.name, optional |-> TRUE, parser |-> T.parser]>>

FirstFailingAfter(M, S, i) ==
    LET failing == {j \in (i + 1)..Len(S) : FailsAlone(M, S[j])}
    IN  IF failing = {} THEN 0
        ELSE CHOOSE j \in failing : \A k \in failing : j <= k

\* C11: in a derived struct an Option<T> field whose header is absent,
\* undecodable or unparseable never ends the extraction: when it is
\* evaluated, every later binding is evaluated up to the first failing
\* required one, whose error is the outcome; without such a binding the
\* struct is built and the later fields hold their values.
C11_OptionalFailureDoesNotStop ==
    \A c \in CallIds :
        HeadersCall(c) =>
            LET M == calls[c].headers
                S == calls[c].schema
            IN  \A i \in OptionalFields(c) :
                    (Evaluated(c, i) /\ ~Good(M, S[i])) =>
                        LET f == FirstFailingAfter(M, S, i)
                        IN  IF f = 0
                            THEN /\ calls[c].outcome.tag = "Ok"
                                 /\ \A j \in (i + 1)..Len(S) :
                                       /\ Evaluated(c, j)
                                       /\ calls[c].outcome.v[j]
                                             = IF S[j].optional
                                               THEN LenientValue(M, S[j])
                                               ELSE Parsed(M, S[j])
                            ELSE /\ \A j \in (i + 1)..f : Evaluated(c, j)
                                 /\ calls[c].outcome = ErrorOf(M, S[f])

\* C11 witness: the Option<T> field 1 met a header it cannot parse, the
\* required field 2 was still evaluated and its Missing is the outcome.
C11_Witness ==
    \E c \in CallIds :
        /\ HeadersCall(c)
        /\ Len(calls[c].schema) = 2
        /\ calls[c].schema[1].optional
        /\ Unparseable(calls[c].headers, calls[c].schema[1])
        /\ ~calls[c].schema[2].optional
        /\ Evaluated(c, 2)
        /\ calls[c].outcome = Err("Missing", calls[c].schema[2].name)

\* C12: a derived struct all of whose fields are Option<T> is built for
\* every header map; no error is returned.
C12_AllOptionalAlwaysSucceeds ==
    \A c \in CallIds :
        (HeadersCall(c)
           /\ \A i \in 1..Len(calls[c].schema) : calls[c].schema[i].optional)
            => /\ calls[c].outcome.tag = "Ok"
               /\ DOMAIN calls[c].outcome.v = 1..Len(calls[c].schema)

\* C12 witness: both fields are Option<T>, one header is undecodable and the
\* other unparseable, and the struct was built.
C12_Witness ==
    \E c \in CallIds :
        /\ HeadersCall(c)
        /\ Len(calls[c].schema) = 2
        /\ calls[c].schema[1].optional /\ calls[c].schema[2].optional
        /\ Undecodable(calls[c].headers, calls[c].schema[1].name)
        /\ Unparseable(calls[c].headers, calls[c].schema[2])
        /\ calls[c].outcome = Ok(<<None, None>>)

Responded(c) == calls[c].pc = "responded"

Rejected(c) == Responded(c) /\ calls[c].outcome.tag = "Err"

\* C13: every HeaderError, of whatever kind, is answered with status 400.
C13_EveryErrorIsBadRequest ==
    \A c \in CallIds :
        Rejected(c) => calls[c].response.status = 400

\* C13 witness: a Parse error was answered with 400.
C13_Witness ==
    \E c \in CallIds :
        /\ Rejected(c)
        /\ calls[c].outcome.kind = "Parse"
        /\ calls[c].response.status = 400

\* The "error" text the rejection body carries for each kind.
ErrorText(kind) ==
    CASE kind = "Missing" -> "missing_header"
      [] kind = "InvalidValue" -> "invalid_header_value"
      [] kind = "Parse" -> "header_parse_error"

\* C14: the "error" field of a rejection body is the text of the error's
\* kind (missing_header, invalid_header_value, header_parse_error), and two
\* different kinds never give the same text.
C14_ErrorFieldByKind ==
    \A c \in CallIds :
        Rejected(c) =>
            /\ calls[c].outcome.kind \in ErrorKinds
            /\ calls[c].response.error = ErrorText(calls[c].outcome.kind)
            /\ \A k \in ErrorKinds \ {calls[c].outcome.kind} :
                  IntoResponse(Err(k, calls[c].outcome.name)).error # calls[c].response.error

\* C14 witness: an InvalidValue error was answered with invalid_header_value.
C14_Witness ==
    \E c \in CallIds :
        /\ Rejected(c)
        /\ calls[c].outcome.kind = "InvalidValue"
        /\ calls[c].response.error = "invalid_header_value"

\* The declared names an error of this call can carry.
NamesOfCall(c) ==
    IF calls[c].kind = "Headers"
    THEN {calls[c].schema[i].name : i \in 1..Len(calls[c].schema)}
    ELSE {calls[c].ty.name}

\* C15: the "message" field of a rejection body contains the name of the
\* offending header as it was declared.
C15_MessageNamesHeader ==
    \A c \in CallIds :
        Rejected(c) =>
            /\ calls[c].outcome.name \in NamesOfCall(c)
            /\ \E k \in 1..Len(calls[c].response.message) :
                  calls[c].response.message[k] = calls[c].outcome.name

\* C15 witness: a rejection for the header declared as "X-Second" whose
\* message holds "X-Second".
C15_Witness ==
    \E c \in CallIds :
        /\ Rejected(c)
        /\ calls[c].outcome.name = "X-Second"
        /\ calls[c].response.message[2] = "X-Second"

\* The spellings of a header name a client may use.
Casings == {"x-first", "X-FIRST", "X-First", "x-second", "X-SECOND", "X-Second"}

\* The requests that differ from L only in the case of the header names.
RECURSIVE Recasings(_)
Recasings(L) ==
    IF L = <<>> THEN {<<>>}
    ELSE {<<Line(n, L[1].value)>> \o r :
             n \in {w \in Casings : Lower(w) = Lower(L[1].name)},
             r \in Recasings(Tail(L))}

\* What the extractor of call c returns on the header map M.
OutcomeOn(c, M) ==
    CASE calls[c].kind = "Required" -> RequiredFromRequestParts(M, calls[c].ty).res
      [] calls[c].kind = "Optional" -> OptionalFromRequestParts(M, calls[c].ty).res
      [] OTHER -> HeadersFromRequestParts(M, calls[c].schema).res

\* C16: the outcome of an extraction is the same for every request that
\* differs from the one received only in the case of its header names.
C16_LookupIgnoresCase ==
    \A c \in CallIds :
        Done(c) =>
            \A L \in Recasings(calls[c].lines) :
                OutcomeOn(c, IntoHeaderMap(L)) = calls[c].outcome

\* C16 witness: the request carried "X-FIRST: 42" and nothing else, and
\* Required<T> declared with "x-first" and the integer parser returned 42.
C16_Witness ==
    \E c \in CallIds :
        /\ RequiredCall(c)
        /\ calls[c].lines = <<Line("X-FIRST", <<52, 50>>)>>
        /\ calls[c].ty = [name |-> "x-first", parser |-> "PositiveInt"]
        /\ calls[c].outcome = Ok(IntValue(42))

\* What a binding resolves to from its own name, requiredness and parser.
ResolvedAlone(M, b) ==
    IF b.optional THEN Ok(LenientValue(M, b))
    ELSE IF Good(M, b) THEN Ok(Parsed(M, b))
    ELSE ErrorOf(M, b)

\* The fields of a derived struct whose header name another field also reads.
SharingFields(S) ==
    {i \in 1..Len(S) : \E j \in 1..Len(S) : j # i /\ Lower(S[j].name) = Lower(S[i].name)}

\* C17: two fields of a derived struct that name the same header are
\* resolved independently: each evaluated one resolves to what its own
\* name, requiredness and parser give on the header's raw value, whatever
\* the other is: the struct holds that value, or the extraction ends with
\* that error at the first one that fails.
C17_SameNameBindingsIndependent ==
    \A c \in CallIds :
        HeadersCall(c) =>
            LET S == calls[c].schema
                M == calls[c].headers
                o == calls[c].outcome
            IN  \A i \in SharingFields(S) :
                    Evaluated(c, i) =>
                        LET alone == ResolvedAlone(M, S[i])
                        IN  IF o.tag = "Ok" THEN alone = Ok(o.v[i])
                            ELSE IF i < Len(S) /\ Evaluated(c, i + 1)
                            THEN alone.tag = "Ok"
                            ELSE alone = o

\* C17 witness: a required string field and an optional integer field both
\* read "x-first", sent as "-5": the struct holds the text and None.
C17_Witness ==
    \E c \in CallIds :
        /\ HeadersCall(c)
        /\ calls[c].schema = << [name |-> "x-first", optional |-> FALSE, parser |-> "String"],
                                [name |-> "x-first", optional |-> TRUE, parser |-> "PositiveInt"] >>
        /\ calls[c].headers["x-first"] = << <<45, 53>> >>
        /\ calls[c].outcome = Ok(<<StringValue(<<45, 53>>), None>>)

\* A header sent with an empty value or with nothing but white space.
Blank(M, name) ==
    Present(M, name) /\ \A k \in 1..Len(Raw(M, name)) : Raw(M, name)[k] \in {32, 9}

\* The fields of a derived struct with the string parser whose header is blank.
BlankStringFields(M, S) ==
    {i \in 1..Len(S) : S[i].parser = "String" /\ Blank(M, S[i].name)}

\* C18: a header sent with an empty or white-space value is present. With
\* the string parser Required<T> and a required field succeed with exactly
\* the bytes sent, Optional<T> and an Option<T> field yield Some of them;
\* a failing extraction of a derived struct fails on another field.
C18_BlankValueIsPresent ==
    \A c \in CallIds :
        LET M == calls[c].headers
            T == calls[c].ty
            S == calls[c].schema
            o == calls[c].outcome
        IN  /\ (RequiredCall(c) /\ T.parser = "String" /\ Blank(M, T.name)) =>
                   o = Ok(StringValue(Raw(M, T.name)))
            /\ (OptionalCall(c) /\ T.parser = "String" /\ Blank(M, T.name)) =>
                   o = Ok(Some(StringValue(Raw(M, T.name))))
            /\ HeadersCall(c) =>
                   IF o.tag = "Ok"
                   THEN \A i \in BlankStringFields(M, S) :
                            o.v[i] = IF S[i].optional
                                     THEN Some(StringValue(Raw(M, S[i].name)))
                                     ELSE StringValue(Raw(M, S[i].name))
                   ELSE \E j \in 1..Len(S) :
                            /\ j \notin BlankStringFields(M, S)
                            /\ FailsAlone(M, S[j])
                            /\ o = ErrorOf(M, S[j])

\* C18 witness: "x-first" was sent as two spaces and Required<T> with the
\* string parser returned the two spaces.
C18_Witness ==
    \E c \in CallIds :
        /\ RequiredCall(c)
        /\ calls[c].ty.parser = "String"
        /\ Blank(calls[c].headers, calls[c].ty.name)
        /\ Raw(calls[c].headers, calls[c].ty.name) = <<32, 32>>
        /\ calls[c].outcome = Ok(StringValue(<<32, 32>>))

\* C19: a derived struct without fields is extracted from every request, as
\* the empty struct, without looking at a header.
C19_NoBindingsIsEmptyComposite ==
    \A c \in CallIds :
        (HeadersCall(c) /\ calls[c].schema = <<>>) =>
            /\ calls[c].outcome = Ok(<<>>)
            /\ calls[c].log = <<>>

\* C19 witness: a struct without fields was extracted from a request that
\* carries headers.
C19_Witness ==
    \E c \in CallIds :
        /\ HeadersCall(c)
        /\ calls[c].schema = <<>>
        /\ calls[c].lines # <<>>
        /\ calls[c].outcome = Ok(<<>>)

\* The header names an extraction is bound to.
BoundNames(c) ==
    IF calls[c].kind = "Headers"
    THEN {calls[c].schema[i].name : i \in 1..Len(calls[c].schema)}
    ELSE {calls[c].ty.name}

\* C20: no extraction runs with an empty header name: the wrapped type's
\* HEADER_NAME and the name of every field of a derived struct are non-empty.
C20_NoEmptyBindingName ==
    \A c \in CallIds : Done(c) => "" \notin BoundNames(c)

\* The call of task c has failed: its field statement returned an error.
Failed(c) == calls[c].kind = "Headers" /\ calls[c].outcome.tag = "Err"

\* The position of the field the call of task c failed at.
FailedAt(c) == Len(calls[c].fields) + 1

\* Nothing was done for a field after position i.
NothingAfter(c, i) == \A k \in 1..Len(calls[c].log) : calls[c].log[k].field <= i

\* C21: once a field statement of a derived struct's extraction has failed,
\* no later field is evaluated: at that moment nothing has been looked up,
\* decoded or parsed for a later field, and from then on the call does
\* nothing more until its task takes the next request.
C21_NothingAfterFailure ==
    /\ [](\A c \in CallIds : Failed(c) => NothingAfter(c, FailedAt(c)))
    /\ [][\A c \in CallIds :
             Failed(c) =>
                 \/ /\ calls'[c].log = calls[c].log
                    /\ calls'[c].fields = calls[c].fields
                    /\ calls'[c].outcome = calls[c].outcome
                 \/ calls'[c].pc = "idle"]_vars

\* C21 witness: the first of two fields failed and nothing was done for the
\* second, whose header the request carries.
C21_Witness ==
    \E c \in CallIds :
        /\ Failed(c)
        /\ Len(calls[c].schema) = 2
        /\ FailedAt(c) = 1
        /\ Present(calls[c].headers, calls[c].schema[2].name)
        /\ calls[c].log # <<>>
        /\ NothingAfter(c, 1)

\* The call of task c has returned and its outcome is still at hand.
Returned(c) == calls[c].pc \in {"done", "responded"}

\* C22: extraction is deterministic: two calls of the same extractor on the
\* same header map have the same outcome, whichever ran first and whatever
\* other calls their tasks made before.
C22_SameInputsSameOutcome ==
    \A c, d \in CallIds :
        (Returned(c) /\ Returned(d) /\ calls[c].headers = calls[d].headers) =>
            calls[c].outcome = calls[d].outcome

\* C22 witness: two tasks hold the same error for the same headers while one
\* of them has answered and the other has not.
C22_Witness ==
    \E c, d \in CallIds :
        /\ c # d
        /\ calls[c].pc = "responded"
        /\ calls[d].pc = "done"
        /\ calls[c].lines # <<>>
        /\ calls[c].headers = calls[d].headers
        /\ calls[c].outcome.tag = "Err"
        /\ calls[d].outcome = calls[c].outcome

\* C23: every step of an extraction, up to and including the one it returns
\* with, leaves the request's headers as received and the extractor (the
\* wrapped type, the struct's bindings) as built.
C23_ExtractionLeavesInputs ==
    [][\A c \in CallIds :
          Running(c) =>
              /\ calls'[c].headers = calls[c].headers
              /\ calls'[c].lines = calls[c].lines
              /\ calls'[c].schema = calls[c].schema
              /\ calls'[c].ty = calls[c].ty
              /\ calls'[c].kind = calls[c].kind]_vars

\* C23 witness: a call has failed and a call has succeeded, each on a
\* request with headers, and the headers are those the request was built from.
C23_Witness ==
    \E c, d \in CallIds :
        /\ Done(c) /\ calls[c].outcome.tag = "Err"
        /\ Done(d) /\ calls[d].outcome.tag = "Ok"
        /\ calls[c].lines # <<>> /\ calls[c].headers = IntoHeaderMap(calls[c].lines)
        /\ calls[d].lines # <<>> /\ calls[d].headers = IntoHeaderMap(calls[d].lines)

\* The run of the extractor of task c, by itself, on the task's own headers.
AloneRun(c) ==
    CASE calls[c].kind = "Required" -> RequiredFromRequestParts(calls[c].headers, calls[c].ty)
      [] calls[c].kind = "Optional" -> OptionalFromRequestParts(calls[c].headers, calls[c].ty)
      [] OTHER -> HeadersFromRequestParts(calls[c].headers, calls[c].schema)

IsPrefix(s, t) == Len(s) <= Len(t) /\ SubSeq(t, 1, Len(s)) = s

\* C24: with any number of tasks extracting at once, under every
\* interleaving of their statements, what a call has done so far is the
\* beginning of what it does when run alone on its own headers, and the
\* outcome it returns is the outcome of that run.
C24_ConcurrentCallsAreIsolated ==
    \A c \in CallIds :
        /\ calls[c].pc # "idle" => IsPrefix(calls[c].log, AloneRun(c).log)
        /\ Returned(c) =>
               /\ calls[c].outcome = AloneRun(c).res
               /\ calls[c].log = AloneRun(c).log

\* C24 witness: one task has its call rejected while another, on different
\* headers, is between two field statements of the same struct.
C24_Witness ==
    \E c, d \in CallIds :
        /\ calls[c].pc = "done" /\ calls[c].outcome.tag = "Err"
        /\ calls[d].pc = "running" /\ calls[d].fields # <<>>
        /\ calls[d].headers # calls[c].headers
        /\ calls[c].headers # NoHeaders

IsGet(e) == e.op = "get"

\* The header lookups of the call of task c, in the order they were made:
\* one per evaluation of a binding.
Lookups(c) == SelectSeq(calls[c].log, IsGet)

\* The bindings of the extractor of task c: the fields of the struct, or the
\* one header of a wrapper (position 0).
BindingCount(c) == IF calls[c].kind = "Headers" THEN Len(calls[c].schema) ELSE 1

\* C25: a started extraction returns, and it evaluates each binding at most
\* once, in declaration order, never one a second time: its k-th lookup is
\* for the k-th binding, and there are at most as many as bindings.
C25_TerminatesWithoutRetry ==
    /\ [](\A c \in CallIds :
              /\ Len(Lookups(c)) <= BindingCount(c)
              /\ \A k \in 1..Len(Lookups(c)) :
                     Lookups(c)[k].field = IF calls[c].kind = "Headers" THEN k ELSE 0)
    /\ \A c \in CallIds : Running(c) ~> Done(c)

\* C25 witness: a call on a struct of two fields returned the error of the
\* second after one lookup for each.
C25_Witness ==
    \E c \in CallIds :
        /\ Failed(c) /\ Done(c)
        /\ Len(calls[c].schema) = 2
        /\ Len(Lookups(c)) = 2
        /\ FailedAt(c) = 2

\* The header of binding b is there but is not a value of b's type.
Malformed(M, b) == Undecodable(M, b.name) \/ Unparseable(M, b)

\* The field the extraction of a derived struct stopped at.
LastField(c) == calls[c].log[Len(calls[c].log)].field

\* The Option<T> field i with a malformed header was resolved strictly: its
\* failure is the outcome of the call.
ResolvedStrictly(c, i) ==
    /\ calls[c].schema[i].optional
    /\ Malformed(calls[c].headers, calls[c].schema[i])
    /\ calls[c].outcome.tag = "Err"
    /\ calls[c].log # <<>>
    /\ LastField(c) = i

\* The Option<T> field i with a malformed header was resolved leniently:
\* it was evaluated and the extraction went on.
ResolvedLeniently(c, i) ==
    /\ calls[c].schema[i].optional
    /\ Malformed(calls[c].headers, calls[c].schema[i])
    /\ Evaluated(c, i)
    /\ (calls[c].outcome.tag = "Ok" \/ LastField(c) # i)

\* C26: the Option<T> fields of one derived struct are all resolved under
\* the same policy: no extraction resolves one of them strictly and another
\* leniently.
C26_OnePolicyPerSchema ==
    \A c \in CallIds :
        HeadersCall(c) =>
            \A i, j \in 1..Len(calls[c].schema) :
                ~(ResolvedStrictly(c, i) /\ ResolvedLeniently(c, j))

\* C26 witness: two Option<T> fields with malformed headers, one
\* undecodable and one unparseable, both resolved leniently.
C26_Witness ==
    \E c \in CallIds :
        /\ HeadersCall(c)
        /\ Len(calls[c].schema) = 2
        /\ ResolvedLeniently(c, 1) /\ ResolvedLeniently(c, 2)
        /\ Undecodable(calls[c].headers, calls[c].schema[1].name)
        /\ Unparseable(calls[c].headers, calls[c].schema[2])
        /\ calls[c].outcome = Ok(<<None, None>>)

\* The header maps that hold the same first value as M under every name,
\* followed by other values, or by none.
SameFirstValues(M) ==
    {[n \in DOMAIN M |-> IF M[n] = <<>> THEN <<>> ELSE <<M[n][1]>> \o rest] :
        rest \in SeqsUpTo(WireValues, MaxLines - 1)}

\* C27: of several values received under a header name only the first
\* counts: the outcome of an extraction is its outcome on every header map
\* with the same first values, whatever follows them.
C27_OnlyFirstValueCounts ==
    \A c \in CallIds :
        Done(c) =>
            \A M \in SameFirstValues(calls[c].headers) :
                OutcomeOn(c, M) = calls[c].outcome

\* C27 witness: "x-first" arrived twice, as "42" and then as "-5", and
\* Required<T> with the integer parser returned 42.
C27_Witness ==
    \E c \in CallIds :
        /\ RequiredCall(c)
        /\ calls[c].ty = [name |-> "x-first", parser |-> "PositiveInt"]
        /\ calls[c].headers["x-first"] = << <<52, 50>>, <<45, 53>> >>
        /\ calls[c].outcome = Ok(IntValue(42))

\* The header of field i (0: of the wrapped type) was decoded.
DecodeRan(c, i) == \E k \in 1..Len(calls[c].log) : calls[c].log[k] = Ev(i, "to_str")

\* The result res of resolving the required binding b at position i of call
\* c is exactly one of a value and the three errors, each in its own case.
ExclusiveInOrder(c, i, b, res) ==
    LET M == calls[c].headers
    IN  /\ res.tag \in {"Ok", "Err"}
        /\ res.tag = "Err" => res.kind \in ErrorKinds
        /\ res.tag = "Ok" => Good(M, b)
        /\ (res.tag = "Err" /\ res.kind = "Missing") => ~Present(M, b.name)
        /\ (res.tag = "Err" /\ res.kind = "InvalidValue") => Undecodable(M, b.name)
        /\ (res.tag = "Err" /\ res.kind = "Parse") => Unparseable(M, b)
        /\ DecodeRan(c, i) => Present(M, b.name)
        /\ ParserRan(c, i) => (Present(M, b.name) /\ Decodable(Raw(M, b.name)))

\* C28: resolving a required binding always gives exactly one of a value,
\* Missing, InvalidValue and Parse, in that precedence: a value only for a
\* good header, Missing only for an absent one, InvalidValue only for a
\* present undecodable one, Parse only for a present, decodable one the
\* parser rejects; an absent header is not decoded and the parser never
\* runs on an absent or undecodable one.
C28_RequiredOutcomesExclusive ==
    \A c \in CallIds :
        /\ RequiredCall(c) =>
               ExclusiveInOrder(c, 0, [name |-> calls[c].ty.name, optional |-> FALSE,
                                       parser |-> calls[c].ty.parser], calls[c].outcome)
        /\ HeadersCall(c) =>
               \A i \in RequiredFields(c) :
                   ExclusiveInOrder(c, i, calls[c].schema[i],
                                    IF calls[c].outcome.tag = "Err" /\ LastField(c) = i
                                    THEN calls[c].outcome
                                    ELSE Ok(Parsed(calls[c].headers, calls[c].schema[i])))

\* C28 witness: Required<T> with the integer parser on an absent header
\* returned Missing after the lookup alone.
C28_Witness ==
    \E c \in CallIds :
        /\ RequiredCall(c)
        /\ calls[c].ty = [name |-> "x-first", parser |-> "PositiveInt"]
        /\ calls[c].headers["x-second"] # <<>>
        /\ calls[c].outcome = Err("Missing", "x-first")
        /\ calls[c].log = <<Ev(0, "get")>>

\* What the other wrapper returns for the type and the headers of call c.
AsRequired(c) ==
    IF calls[c].kind = "Required" THEN calls[c].outcome
    ELSE RequiredFromRequestParts(calls[c].headers, calls[c].ty).res

AsOptional(c) ==
    IF calls[c].kind = "Optional" THEN calls[c].outcome
    ELSE OptionalFromRequestParts(calls[c].headers, calls[c].ty).res

FailingDeclaredName(c) ==
    IF calls[c].kind = "Headers"
    THEN calls[c].schema[LastField(c)].name
    ELSE calls[c].ty.name

====
